---- MODULE Spec2Model ----
(***************************************************************************)
(* Model of scripts/apply-engagement-metrics.py: the batch script that     *)
(* loads the mock fixtures, computes thread views and AI-answer            *)
(* endorsements, and writes threads, posts and AI-answers back.            *)
(*                                                                         *)
(* The script's arithmetic is Python float arithmetic (IEEE-754 binary64,  *)
(* round to nearest, ties to even).  It is modelled bit-exactly: a float   *)
(* is a sign, an odd natural mantissa and a binary exponent, the mantissa  *)
(* held as a little-endian sequence of 15-bit limbs because a 53-bit       *)
(* mantissa does not fit a TLC integer.  Every operation computes the      *)
(* exact result and rounds it once to 53 bits, as the hardware does.       *)
(* Overflow, subnormals, NaN and the sign of zero cannot arise from the    *)
(* script's magnitudes and are not modelled.                               *)
(***************************************************************************)
EXTENDS Integers, Sequences, FiniteSets, TLC

(***************************************************************************)
(* Naturals of arbitrary size: <<>> is 0, a[1] the least significant limb, *)
(* no zero limb at the top.                                                *)
(***************************************************************************)
LimbBits == 15
Base == 2 ^ LimbBits

RECURSIVE BTrim(_)
BTrim(a) ==
    IF a = <<>> THEN a
    ELSE IF a[Len(a)] = 0 THEN BTrim(SubSeq(a, 1, Len(a) - 1)) ELSE a

RECURSIVE BFromNat(_)
BFromNat(n) == IF n = 0 THEN <<>> ELSE <<n % Base>> \o BFromNat(n \div Base)

RECURSIVE BToNat(_)
BToNat(a) == IF a = <<>> THEN 0 ELSE a[1] + Base * BToNat(Tail(a))

BRest(a) == IF a = <<>> THEN a ELSE Tail(a)
BLow(a) == IF a = <<>> THEN 0 ELSE a[1]

\* s is the sum of the low limbs and the carry in
RECURSIVE BAddC(_, _, _)
BAddS(a, b, s) == <<s % Base>> \o BAddC(BRest(a), BRest(b), s \div Base)

BAddC(a, b, c) ==
    IF a = <<>> /\ b = <<>> THEN (IF c = 0 THEN <<>> ELSE <<c>>)
    ELSE BAddS(a, b, BLow(a) + BLow(b) + c)

BAdd(a, b) == BAddC(a, b, 0)

\* a - b - c for a >= b + c; d is the difference of the low limbs
RECURSIVE BSubC(_, _, _)
BSubD(a, b, d) ==
    IF d < 0 THEN <<d + Base>> \o BSubC(Tail(a), BRest(b), 1)
    ELSE <<d>> \o BSubC(Tail(a), BRest(b), 0)

BSubC(a, b, c) ==
    IF a = <<>> THEN <<>> ELSE BSubD(a, b, a[1] - BLow(b) - c)

BSub(a, b) == BTrim(BSubC(a, b, 0))

\* -1, 0, 1 as a < b, a = b, a > b
RECURSIVE BCmp(_, _)
BCmp(a, b) ==
    IF Len(a) # Len(b) THEN (IF Len(a) < Len(b) THEN -1 ELSE 1)
    ELSE IF a = <<>> THEN 0
    ELSE IF a[Len(a)] # b[Len(b)] THEN (IF a[Len(a)] < b[Len(b)] THEN -1 ELSE 1)
    ELSE BCmp(BTrim(SubSeq(a, 1, Len(a) - 1)), BTrim(SubSeq(b, 1, Len(b) - 1)))

\* a * k + c for a limb k; s is the low limb's product and the carry in
RECURSIVE BMulLimbC(_, _, _)
BMulLimbS(a, k, s) == <<s % Base>> \o BMulLimbC(Tail(a), k, s \div Base)

BMulLimbC(a, k, c) ==
    IF a = <<>> THEN (IF c = 0 THEN <<>> ELSE <<c>>)
    ELSE BMulLimbS(a, k, a[1] * k + c)

BMulLimb(a, k) == BTrim(BMulLimbC(a, k, 0))

RECURSIVE BMul(_, _)
BMul(a, b) ==
    IF a = <<>> \/ b = <<>> THEN <<>>
    ELSE BTrim(BAdd(BMulLimb(a, b[1]), <<0>> \o BMul(a, Tail(b))))

\* quotient and remainder of a by d, 0 < d <= Base, from the top limb down;
\* cur is the remainder so far with the top limb brought down
RECURSIVE BDivLimbR(_, _, _)
BDivJoin(rest, digit) == [q |-> rest.q \o <<digit>>, r |-> rest.r]

BDivCur(a, d, cur) ==
    BDivJoin(BDivLimbR(SubSeq(a, 1, Len(a) - 1), d, cur % d), cur \div d)

BDivLimbR(a, d, r) ==
    IF a = <<>> THEN [q |-> <<>>, r |-> r]
    ELSE BDivCur(a, d, r * Base + a[Len(a)])

BDivTrim(x) == [q |-> BTrim(x.q), r |-> x.r]

BDivLimb(a, d) == BDivTrim(BDivLimbR(a, d, 0))

Zeros(n) == [k \in 1..n |-> 0]

\* a * 2^n
BShl(a, n) ==
    IF a = <<>> THEN a
    ELSE Zeros(n \div LimbBits) \o BMulLimb(a, 2 ^ (n % LimbBits))

\* floor(a / 2^n)
BShr(a, n) ==
    IF n \div LimbBits >= Len(a) THEN <<>>
    ELSE BDivLimb(SubSeq(a, n \div LimbBits + 1, Len(a)), 2 ^ (n % LimbBits)).q

RECURSIVE BitLen(_)
BitLen(n) == IF n = 0 THEN 0 ELSE 1 + BitLen(n \div 2)

BBitLen(a) ==
    IF a = <<>> THEN 0 ELSE LimbBits * (Len(a) - 1) + BitLen(a[Len(a)])

\* the number of zero bits below the lowest one bit of a # 0
RECURSIVE TrailingZeros(_)
TrailingZeros(n) == IF n % 2 = 1 THEN 0 ELSE 1 + TrailingZeros(n \div 2)

RECURSIVE BTrailingZeros(_)
BTrailingZeros(a) ==
    IF a[1] = 0 THEN LimbBits + BTrailingZeros(Tail(a)) ELSE TrailingZeros(a[1])

(***************************************************************************)
(* binary64 values: (-1)^neg * man * 2^exp, man odd, or zero.              *)
(***************************************************************************)
MantissaBits == 53

FZero == [neg |-> FALSE, man |-> <<>>, exp |-> 0]

\* z is the number of trailing zero bits of m
FCanonZ(neg, m, e, z) == [neg |-> neg, man |-> BShr(m, z), exp |-> e + z]

FCanon(neg, m, e) ==
    IF m = <<>> THEN FZero ELSE FCanonZ(neg, m, e, BTrailingZeros(m))

\* q is m without its last sh bits, c compares those bits with a half of
\* q's last place: up when above, or at the half and the exact value is
\* beyond (sticky) or q is odd
FRoundC(neg, q, e, sticky, c) ==
    FCanon(neg,
           IF c > 0 \/ (c = 0 /\ (sticky \/ q[1] % 2 = 1))
           THEN BAdd(q, <<1>>) ELSE q,
           e)

FRoundQ(neg, m, e, sticky, sh, q) ==
    FRoundC(neg, q, e + sh, sticky,
            BCmp(BSub(m, BShl(q, sh)), BShl(<<1>>, sh - 1)))

FRoundLen(neg, m, e, sticky, len) ==
    IF len <= MantissaBits THEN FCanon(neg, m, e)
    ELSE FRoundQ(neg, m, e, sticky, len - MantissaBits,
                 BShr(m, len - MantissaBits))

\* m * 2^e (plus, with sticky, a nonzero amount below m's last bit), rounded
\* to 53 significant bits, to nearest, ties to even
FRound(neg, m, e, sticky) == FRoundLen(neg, m, e, sticky, BBitLen(m))

Abs(n) == IF n < 0 THEN -n ELSE n

\* float(n) of a Python int
FFromInt(n) == FRound(n < 0, BFromNat(Abs(n)), 0, FALSE)

\* a / b of two Python ints, 0 < b <= 2^15: true division, correctly rounded
DivGuardBits == 64

FDivQ(neg, x) == FRound(neg, x.q, -DivGuardBits, x.r # 0)

FDivInt(a, b) ==
    IF a = 0 THEN FZero
    ELSE FDivQ(a < 0, BDivLimb(BShl(BFromNat(Abs(a)), DivGuardBits), b))

FNeg(x) == IF x.man = <<>> THEN x ELSE [x EXCEPT !.neg = ~x.neg]

FMul(x, y) ==
    IF x.man = <<>> \/ y.man = <<>> THEN FZero
    ELSE FRound(x.neg # y.neg, BMul(x.man, y.man), x.exp + y.exp, FALSE)

\* mx and my are the mantissas at the common exponent e, c compares them
FAddC(xneg, yneg, mx, my, e, c) ==
    IF xneg = yneg THEN FRound(xneg, BAdd(mx, my), e, FALSE)
    ELSE IF c = 0 THEN FZero
    ELSE IF c > 0 THEN FRound(xneg, BSub(mx, my), e, FALSE)
    ELSE FRound(yneg, BSub(my, mx), e, FALSE)

FAddM(xneg, yneg, mx, my, e) == FAddC(xneg, yneg, mx, my, e, BCmp(mx, my))

FAddE(x, y, e) ==
    FAddM(x.neg, y.neg, BShl(x.man, x.exp - e), BShl(y.man, y.exp - e), e)

FAdd(x, y) ==
    IF x.man = <<>> THEN y
    ELSE IF y.man = <<>> THEN x
    ELSE FAddE(x, y, IF x.exp < y.exp THEN x.exp ELSE y.exp)

FSub(x, y) == FAdd(x, FNeg(y))

FIsNegative(d) == d.man # <<>> /\ d.neg

\* x < y
FLess(x, y) == FIsNegative(FSub(x, y))

\* min(x, y) of Python: x unless y < x
FMin(x, y) == IF FLess(y, x) THEN y ELSE x

FSigned(neg, n) == IF neg THEN -n ELSE n

\* int(x): the integer part, toward zero
FTrunc(x) ==
    IF x.man = <<>> THEN 0
    ELSE FSigned(x.neg, IF x.exp >= 0 THEN BToNat(BShl(x.man, x.exp))
                        ELSE BToNat(BShr(x.man, -x.exp)))

(***************************************************************************)
(* The random module.  Seeding fixes the generator's output sequence; the  *)
(* sequence itself is unknown, so each output is a variate raw / 16 of the *)
(* unit interval, and a call consumes one.                                 *)
(***************************************************************************)
RawDen == 2 ^ 4

\* random.random(): a float in [0, 1)
random_random(raw) == FDivInt(raw, RawDen)

\* random.uniform(a, b): a + (b - a) * random()
random_uniform(a, b, raw) == FAdd(a, FMul(FSub(b, a), random_random(raw)))

\* random.randint(a, b): an integer of a..b
random_randint(a, b, raw) == a + (raw * (b - a + 1)) \div RawDen

(***************************************************************************)
(* Timestamps: a calendar day, counted from the day of NOW, and the second *)
(* of that day.  fromisoformat(...).replace(tzinfo=None) yields the        *)
(* wall-clock reading of the fixture's 'Z' timestamp.                      *)
(***************************************************************************)
SecondsPerDay == 86400

NOW == [day |-> 0, sec |-> 12 * 3600]

\* datetime.timedelta's normal form: 0 <= seconds < 86400, days any sign
timedelta(days, seconds) ==
    [days    |-> days + seconds \div SecondsPerDay,
     seconds |-> seconds % SecondsPerDay]

\* a bug: the days as int(delta.total_seconds() / 86400)
get_days_since_creation_int(created_at) ==
    FSigned((NOW.day - created_at.day) * SecondsPerDay
                + (NOW.sec - created_at.sec) < 0,
            Abs((NOW.day - created_at.day) * SecondsPerDay
                + (NOW.sec - created_at.sec)) \div SecondsPerDay)

get_days_since_creation(created_at) ==
    timedelta(NOW.day - created_at.day, NOW.sec - created_at.sec).days

F0_8 == FDivInt(8, 10)
F1_0 == FFromInt(1)
F1_3 == FDivInt(13, 10)
F0_3 == FDivInt(3, 10)
F0_2 == FDivInt(2, 10)
F0_25 == FDivInt(25, 100)
F0_5 == FDivInt(5, 10)
F2_5 == FDivInt(25, 10)
F0_4 == FDivInt(4, 10)
F0_6 == FDivInt(6, 10)
F2_0 == FFromInt(2)

get_course_size_factor(enrollment) ==
    IF enrollment < 35 THEN F0_8
    ELSE IF enrollment <= 50 THEN F1_0
    ELSE F1_3

get_base_views(status, raw) ==
    IF status = "resolved" THEN random_randint(20, 35, raw)
    ELSE IF status = "answered" THEN random_randint(15, 25, raw)
    ELSE random_randint(8, 15, raw)

\* any(p.get('endorsed') for p in thread_posts)
AnyEndorsed(thread_posts) ==
    \E k \in 1..Len(thread_posts) : thread_posts[k].endorsed

\* the loop over thread_posts that breaks at the first instructor author
AnyInstructorReply(thread_posts, users_by_id) ==
    \E k \in 1..Len(thread_posts) :
        /\ thread_posts[k].authorId \in DOMAIN users_by_id
        /\ users_by_id[thread_posts[k].authorId].role = "instructor"

\* score += bonus under a condition
add_if(condition, score, bonus) ==
    IF condition THEN FAdd(score, bonus) ELSE score

\* a bug: the instructor loop without its break
InstructorReplies(thread_posts, users_by_id) ==
    {k \in 1..Len(thread_posts) :
        /\ thread_posts[k].authorId \in DOMAIN users_by_id
        /\ users_by_id[thread_posts[k].authorId].role = "instructor"}

calculate_quality_factor_no_break(thread, thread_posts, users_by_id) ==
    FAdd(F1_0,
      add_if(thread.status = "resolved",
        add_if(Cardinality(InstructorReplies(thread_posts, users_by_id)) > 1,
          add_if(AnyInstructorReply(thread_posts, users_by_id),
            add_if(AnyEndorsed(thread_posts),
              add_if(Len(thread_posts) > 0,
                add_if(thread.hasAIAnswer, FZero, F0_3),
                F0_2),
              F0_3),
            F0_2),
          F0_2),
        F0_25))

calculate_quality_factor(thread, thread_posts, users_by_id) ==
    FAdd(F1_0,
      add_if(thread.status = "resolved",
        add_if(AnyInstructorReply(thread_posts, users_by_id),
          add_if(AnyEndorsed(thread_posts),
            add_if(Len(thread_posts) > 0,
              add_if(thread.hasAIAnswer, FZero, F0_3),
              F0_2),
            F0_3),
          F0_2),
        F0_25))

\* min(1 + (days / 7) * 0.5, 2.5)
age_factor(days) ==
    FMin(FAdd(F1_0, FMul(FDivInt(days, 7), F0_5)), F2_5)

Min(a, b) == IF b < a THEN b ELSE a
Max(a, b) == IF b > a THEN b ELSE a

\* lines 92-98, the course and the replies already looked up
views_of(base_views, days, quality_factor, course_size_factor) ==
    Min(FTrunc(FMul(FMul(FMul(FFromInt(base_views), age_factor(days)),
                         quality_factor), course_size_factor)),
        200)

\* lines 86-98 after the course lookup: the views of a thread in course,
\* with base views drawn as raw
calculate_thread_views(thread, course, thread_posts, users_by_id, raw) ==
    views_of(get_base_views(thread.status, raw),
             get_days_since_creation(thread.createdAt),
             calculate_quality_factor(thread, thread_posts, users_by_id),
             get_course_size_factor(course.enrollmentCount))

\* base, by the confidence tier
student_base(confidence, thread_views, raw) ==
    IF confidence >= 85
    THEN FMul(FMul(FDivInt(confidence, 100), FDivInt(thread_views, 10)),
              random_uniform(F0_3, F0_6, raw))
    ELSE IF confidence >= 60
    THEN FMul(FMul(FDivInt(confidence, 100), FDivInt(thread_views, 20)),
              random_uniform(F0_2, F0_4, raw))
    ELSE random_uniform(FZero, F2_0, raw)

\* a bug: int(base) without the max(0, ...)
calculate_ai_student_endorsements_no_max(ai_answer, thread_views, raw) ==
    FTrunc(student_base(ai_answer.confidenceScore, thread_views, raw))

\* max(0, int(base))
calculate_ai_student_endorsements(ai_answer, thread_views, raw) ==
    Max(0, FTrunc(student_base(ai_answer.confidenceScore, thread_views, raw)))

\* [c for c in ai_answer['citations'] if c['relevance'] >= 80]
quality_citations(ai_answer) ==
    {k \in 1..Len(ai_answer.citations) : ai_answer.citations[k].relevance >= 80}

\* a bug: one quality citation is enough
instructor_gate_one_citation(ai_answer, thread_views, days_old) ==
    /\ ~(ai_answer.confidenceScore < 80)
    /\ ~(Cardinality(quality_citations(ai_answer)) < 1)
    /\ ~(days_old < 1)
    /\ ~(thread_views < 20)

\* the four early returns of should_instructor_endorse: TRUE when none is
\* taken, and only then is random.random() called
instructor_gate(ai_answer, thread_views, days_old) ==
    /\ ~(ai_answer.confidenceScore < 80)
    /\ ~(Cardinality(quality_citations(ai_answer)) < 2)
    /\ ~(days_old < 1)
    /\ ~(thread_views < 20)

should_instructor_endorse(ai_answer, thread_views, days_old, raw) ==
    /\ instructor_gate(ai_answer, thread_views, days_old)
    /\ FLess(random_random(raw), F0_4)

\* int(student_endorsements * 0.3)
endorsement_boost(student_endorsements) ==
    FTrunc(FMul(FFromInt(student_endorsements), F0_3))

\* lines 148-157: the four derived fields written
write_endorsements(ai_answer, student_endorsements, instructor_endorsements) ==
    [ai_answer EXCEPT
        !.studentEndorsements = student_endorsements,
        !.instructorEndorsements = instructor_endorsements,
        !.instructorEndorsed = instructor_endorsements > 0,
        !.totalEndorsements =
            IF instructor_endorsements > 0
            THEN student_endorsements + instructor_endorsements
                 + endorsement_boost(student_endorsements)
            ELSE student_endorsements + instructor_endorsements]

\* lines 145-157; raws are the outputs the generator gives to the calls
endorse(ai_answer, thread_views, days_old, raws) ==
    write_endorsements(ai_answer,
        calculate_ai_student_endorsements(ai_answer, thread_views, raws[1]),
        IF /\ instructor_gate(ai_answer, thread_views, days_old)
           /\ should_instructor_endorse(ai_answer, thread_views, days_old,
                                        raws[2])
        THEN 1 ELSE 0)

(***************************************************************************)
(* The run.  files is the mocks directory; threads, posts, ai_answers,     *)
(* courses and users are the script's module-level lists; pc is the place  *)
(* in the script and i the position of the running for loop.               *)
(* seq42 is the output sequence of the generator seeded with 42, known as  *)
(* far as some run has consumed it, and rngpos the number of outputs the   *)
(* current run has consumed.                                               *)
(* History, for stating the properties: orig is the mocks directory before *)
(* the first run, prev what the previous run left in it, written the files *)
(* the current run has written, draws the variates each record consumed,   *)
(* err the exception that ended the run.                                   *)
(* arg and res are the argument and the result of a function called alone. *)
(***************************************************************************)
VARIABLES files, threads, posts, ai_answers, courses, users, pc, i,
          rngpos, seq42, run, orig, prev, written, draws, err, arg, res

vars == <<files, threads, posts, ai_answers, courses, users, pc, i,
          rngpos, seq42, run, orig, prev, written, draws, err, arg, res>>

MaxThreads == 2
MaxPosts == 1
MaxAnswers == 1
MaxRaw == 1
MaxRuns == 2

\* the variates a call may draw: the ends of the unit interval first
RawChoices == {(RawDen - k) % RawDen : k \in 0..MaxRaw}

NoRecord == [id |-> -1]

\* ids are positive; NoId is the id of no record
NoId == 0

Users == <<[id |-> 1, role |-> "instructor"], [id |-> 2, role |-> "student"]>>
Courses == <<[id |-> 1, enrollmentCount |-> 30], [id |-> 2, enrollmentCount |-> 60]>>

\* a resolved thread two weeks old in the large course; an open thread two
\* days and a half old in the small course; an answered thread dated six hours
\* after NOW; an open thread dated fifty days after NOW; a thread of no course
ThreadProfiles ==
    { [courseId |-> 2, status |-> "resolved", hasAIAnswer |-> TRUE,
       createdAt |-> [day |-> -14, sec |-> 12 * 3600]],
      [courseId |-> 1, status |-> "open", hasAIAnswer |-> FALSE,
       createdAt |-> [day |-> -2, sec |-> 0]],
      [courseId |-> 2, status |-> "answered", hasAIAnswer |-> TRUE,
       createdAt |-> [day |-> 0, sec |-> 18 * 3600]],
      [courseId |-> 1, status |-> "open", hasAIAnswer |-> FALSE,
       createdAt |-> [day |-> 50, sec |-> 12 * 3600]],
      [courseId |-> NoId, status |-> "resolved", hasAIAnswer |-> TRUE,
       createdAt |-> [day |-> -14, sec |-> 12 * 3600]] }

PostProfiles ==
    { [threadId |-> 1, authorId |-> 1, endorsed |-> TRUE],
      [threadId |-> 2, authorId |-> 2, endorsed |-> FALSE],
      [threadId |-> NoId, authorId |-> 2, endorsed |-> TRUE] }

Citations(rs) == [k \in 1..Len(rs) |-> [relevance |-> rs[k]]]

AnswerProfiles ==
    { [threadId |-> 1, confidenceScore |-> 90, citations |-> Citations(<<90, 80>>)],
      [threadId |-> 1, confidenceScore |-> 70, citations |-> Citations(<<90, 80>>)],
      [threadId |-> 1, confidenceScore |-> 90, citations |-> Citations(<<90, 79>>)],
      [threadId |-> 2, confidenceScore |-> 40, citations |-> <<>>],
      [threadId |-> NoId, confidenceScore |-> 90, citations |-> Citations(<<90, 80>>)] }

\* values the derived fields may hold before a run
StaleValues ==
    { [views |-> 999, studentEndorsements |-> 7, instructorEndorsements |-> 5,
       instructorEndorsed |-> FALSE, totalEndorsements |-> 1],
      [views |-> 0, studentEndorsements |-> 0, instructorEndorsements |-> 0,
       instructorEndorsed |-> TRUE, totalEndorsements |-> 0] }

Stale0 == CHOOSE v \in StaleValues : v.views = 999

Lists(profiles, n) == UNION {[1..k -> profiles] : k \in 0..n}

MkThreads(f, stale) ==
    [k \in 1..Len(f) |->
        [id |-> k, title |-> k, courseId |-> f[k].courseId,
         status |-> f[k].status, createdAt |-> f[k].createdAt,
         hasAIAnswer |-> f[k].hasAIAnswer, views |-> stale.views]]

MkPosts(f) ==
    [k \in 1..Len(f) |->
        [id |-> k, threadId |-> f[k].threadId, authorId |-> f[k].authorId,
         endorsed |-> f[k].endorsed]]

MkAnswers(f, stale) ==
    [k \in 1..Len(f) |->
        [id |-> k, threadId |-> f[k].threadId,
         confidenceScore |-> f[k].confidenceScore,
         citations |-> f[k].citations,
         studentEndorsements |-> stale.studentEndorsements,
         instructorEndorsements |-> stale.instructorEndorsements,
         instructorEndorsed |-> stale.instructorEndorsed,
         totalEndorsements |-> stale.totalEndorsements]]

\* {r['id']: r for r in records}: the last record of an id wins
by_id(records) ==
    [id \in {records[k].id : k \in 1..Len(records)} |->
        LET last == CHOOSE k \in 1..Len(records) :
                        /\ records[k].id = id
                        /\ \A j \in (k + 1)..Len(records) : records[j].id # id
        IN  records[last]]

RECURSIVE select_thread(_, _)
\* [p for p in posts if p['threadId'] == thread_id], in file order
select_thread(ps, thread_id) ==
    IF ps = <<>> THEN <<>>
    ELSE IF ps[1].threadId = thread_id
         THEN <<ps[1]>> \o select_thread(Tail(ps), thread_id)
         ELSE select_thread(Tail(ps), thread_id)

\* posts_by_thread.get(thread_id, [])
posts_by_thread_get(ps, thread_id) == select_thread(ps, thread_id)

\* courses_by_id[thread['courseId']]: the course, or NoRecord for KeyError
course_of(thread, cs) ==
    IF thread.courseId \in DOMAIN by_id(cs) THEN by_id(cs)[thread.courseId]
    ELSE NoRecord

\* a bug: next(..., threads[0]), a default for the thread not found
thread_of_default(ts, thread_id) ==
    IF \E k \in 1..Len(ts) : ts[k].id = thread_id
    THEN ts[CHOOSE k \in 1..Len(ts) :
                /\ ts[k].id = thread_id
                /\ \A j \in 1..(k - 1) : ts[j].id # thread_id]
    ELSE IF ts # <<>> THEN ts[1] ELSE NoRecord

\* next(t for t in threads if t['id'] == thread_id): the first such thread,
\* or NoRecord for StopIteration
thread_of(ts, thread_id) ==
    IF \E k \in 1..Len(ts) : ts[k].id = thread_id
    THEN ts[CHOOSE k \in 1..Len(ts) :
                /\ ts[k].id = thread_id
                /\ \A j \in 1..(k - 1) : ts[j].id # thread_id]
    ELSE NoRecord

\* a bug: no random.seed(42), the generator starts wherever it is
random_seed_missing(pos) == pos

\* random.seed(42): the position in the seeded sequence
random_seed(pos) == 0

\* the next n outputs of the generator: those of seq42 where it is known
Outputs(n) ==
    {o \in [1..n -> RawChoices] :
        \A k \in 1..n : rngpos + k <= Len(seq42) => o[k] = seq42[rngpos + k]}

Consume(o) ==
    /\ rngpos' = rngpos + Len(o)
    /\ seq42' = [k \in 1..Max(Len(seq42), rngpos + Len(o)) |->
                    IF k <= Len(seq42) THEN seq42[k] ELSE o[k - rngpos]]

Raise(e) ==
    /\ pc' = "failed"
    /\ err' = e

NoCall == [fn |-> "none"]

CalcIdle == arg = NoCall /\ res = NoCall

NoDraws == [threads |-> <<>>, answers |-> <<>>]

InitWith(ts, ps, as) ==
    /\ files = [threads |-> ts, posts |-> ps, ai_answers |-> as,
                courses |-> Courses, users |-> Users]
    /\ orig = files
    /\ prev = files
    /\ threads = <<>> /\ posts = <<>> /\ ai_answers = <<>>
    /\ courses = <<>> /\ users = <<>>
    /\ pc = "start" /\ i = 0 /\ rngpos = 0 /\ seq42 = <<>> /\ run = 1
    /\ written = {} /\ draws = NoDraws /\ err = "none"
    /\ CalcIdle

Init ==
    \E tf \in Lists(ThreadProfiles, MaxThreads),
       pf \in Lists(PostProfiles, MaxPosts),
       af \in Lists(AnswerProfiles, MaxAnswers) :
        InitWith(MkThreads(tf, Stale0), MkPosts(pf), MkAnswers(af, Stale0))

\* lines 13-32: seed, load the five files (the lookups are by_id and
\* posts_by_thread_get over them)
Load ==
    /\ pc = "start"
    /\ rngpos' = random_seed(rngpos)
    /\ threads' = files.threads
    /\ posts' = files.posts
    /\ ai_answers' = files.ai_answers
    /\ courses' = files.courses
    /\ users' = files.users
    /\ pc' = "threads"
    /\ i' = 1
    /\ UNCHANGED <<files, seq42, run, orig, prev, written, draws, err, arg, res>>

\* lines 135-137: one iteration of the thread loop
ThreadStep ==
    /\ pc = "threads"
    /\ i <= Len(threads)
    /\ LET thread == threads[i]
           course == course_of(thread, courses)
       IN  IF course = NoRecord
           THEN /\ Raise("KeyError")
                /\ UNCHANGED <<threads, i, rngpos, seq42, draws>>
           ELSE \E o \in Outputs(1) :
                /\ threads' = [threads EXCEPT ![i].views =
                       calculate_thread_views(thread, course,
                           posts_by_thread_get(posts, thread.id),
                           by_id(users), o[1])]
                /\ Consume(o)
                /\ draws' = [draws EXCEPT !.threads = Append(@, o)]
                /\ i' = i + 1
                /\ UNCHANGED <<pc, err>>
    /\ UNCHANGED <<files, posts, ai_answers, courses, users, run, orig, prev,
                   written, arg, res>>

\* the thread loop is exhausted: line 140
ThreadsDone ==
    /\ pc = "threads"
    /\ i > Len(threads)
    /\ pc' = "answers"
    /\ i' = 1
    /\ UNCHANGED <<files, threads, posts, ai_answers, courses, users, rngpos,
                   seq42, run, orig, prev, written, draws, err, arg, res>>

\* lines 141-159: one iteration of the AI-answer loop
AnswerStep ==
    /\ pc = "answers"
    /\ i <= Len(ai_answers)
    /\ LET ai_answer == ai_answers[i]
           thread    == thread_of(threads, ai_answer.threadId)
       IN  IF thread = NoRecord
           THEN /\ Raise("StopIteration")
                /\ UNCHANGED <<ai_answers, i, rngpos, seq42, draws>>
           ELSE LET days_old == get_days_since_creation(thread.createdAt)
                    n == IF instructor_gate(ai_answer, thread.views, days_old)
                         THEN 2 ELSE 1
                IN  \E o \in Outputs(n) :
                    /\ ai_answers' = [ai_answers EXCEPT ![i] =
                           endorse(ai_answer, thread.views, days_old, o)]
                    /\ Consume(o)
                    /\ draws' = [draws EXCEPT !.answers = Append(@, o)]
                    /\ i' = i + 1
                    /\ UNCHANGED <<pc, err>>
    /\ UNCHANGED <<files, threads, posts, courses, users, run, orig, prev,
                   written, arg, res>>

\* the AI-answer loop is exhausted: line 162
AnswersDone ==
    /\ pc = "answers"
    /\ i > Len(ai_answers)
    /\ pc' = "save_threads"
    /\ UNCHANGED <<files, threads, posts, ai_answers, courses, users, i,
                   rngpos, seq42, run, orig, prev, written, draws, err, arg,
                   res>>

\* what json.dump writes to each of the three files
dumped_threads(ts, ps, as) == ts

\* a bug: the threads dumped into posts.json
dumped_posts_threads(ts, ps, as) == ts

dumped_posts(ts, ps, as) == ps
dumped_answers(ts, ps, as) == as

\* line 163
SaveThreads ==
    /\ pc = "save_threads"
    /\ files' = [files EXCEPT !.threads = dumped_threads(threads, posts, ai_answers)]
    /\ written' = written \cup {"threads"}
    /\ pc' = "save_posts"
    /\ UNCHANGED <<threads, posts, ai_answers, courses, users, i, rngpos,
                   seq42, run, orig, prev, draws, err, arg, res>>

\* line 164
SavePosts ==
    /\ pc = "save_posts"
    /\ files' = [files EXCEPT !.posts = dumped_posts(threads, posts, ai_answers)]
    /\ written' = written \cup {"posts"}
    /\ pc' = "save_answers"
    /\ UNCHANGED <<threads, posts, ai_answers, courses, users, i, rngpos,
                   seq42, run, orig, prev, draws, err, arg, res>>

\* line 165
SaveAnswers ==
    /\ pc = "save_answers"
    /\ files' = [files EXCEPT !.ai_answers = dumped_answers(threads, posts, ai_answers)]
    /\ written' = written \cup {"ai_answers"}
    /\ pc' = "summary"
    /\ UNCHANGED <<threads, posts, ai_answers, courses, users, i, rngpos,
                   seq42, run, orig, prev, draws, err, arg, res>>

\* lines 167-171: min() and max() of no views raise ValueError, the average
\* over no threads and the share of no posts raise ZeroDivisionError
Summary ==
    /\ pc = "summary"
    /\ IF threads = <<>> THEN Raise("ValueError")
       ELSE IF posts = <<>> THEN Raise("ZeroDivisionError")
       ELSE pc' = "done" /\ err' = err
    /\ UNCHANGED <<files, threads, posts, ai_answers, courses, users, i,
                   rngpos, seq42, run, orig, prev, written, draws, arg, res>>

Next ==
    \/ Load
    \/ ThreadStep
    \/ ThreadsDone
    \/ AnswerStep
    \/ AnswersDone
    \/ SaveThreads
    \/ SavePosts
    \/ SaveAnswers
    \/ Summary

Spec == Init /\ [][Next]_vars

(***************************************************************************)
(* The script run again over the mocks directory it left, the derived      *)
(* fields kept as written or overwritten with other values in between.     *)
(***************************************************************************)
Restale(fs, stale) ==
    [fs EXCEPT
        !.threads = [k \in 1..Len(@) |-> [@[k] EXCEPT !.views = stale.views]],
        !.ai_answers = [k \in 1..Len(@) |->
            [@[k] EXCEPT
                !.studentEndorsements = stale.studentEndorsements,
                !.instructorEndorsements = stale.instructorEndorsements,
                !.instructorEndorsed = stale.instructorEndorsed,
                !.totalEndorsements = stale.totalEndorsements]]]

Invoke ==
    /\ pc \in {"done", "failed"}
    /\ run < MaxRuns
    /\ prev' = files
    /\ files' \in {files} \cup {Restale(files, stale) : stale \in StaleValues}
    /\ run' = run + 1
    /\ pc' = "start"
    /\ i' = 0
    /\ threads' = <<>> /\ posts' = <<>> /\ ai_answers' = <<>>
    /\ courses' = <<>> /\ users' = <<>>
    /\ written' = {}
    /\ draws' = NoDraws
    /\ err' = "none"
    /\ UNCHANGED <<rngpos, seq42, orig, arg, res>>

NextRerun == Next \/ Invoke

SpecRerun == Init /\ [][NextRerun]_vars

(***************************************************************************)
(* The functions called alone.                                             *)
(***************************************************************************)
RunIdle ==
    /\ files = [threads |-> <<>>, posts |-> <<>>, ai_answers |-> <<>>,
                courses |-> <<>>, users |-> <<>>]
    /\ orig = files /\ prev = files
    /\ threads = <<>> /\ posts = <<>> /\ ai_answers = <<>>
    /\ courses = <<>> /\ users = <<>>
    /\ pc = "call" /\ i = 0 /\ rngpos = 0 /\ seq42 = <<>> /\ run = 1
    /\ written = {} /\ draws = NoDraws /\ err = "none"

Return(fn, val) ==
    /\ res' = [fn |-> fn, val |-> val]
    /\ UNCHANGED <<files, threads, posts, ai_answers, courses, users, pc, i,
                   rngpos, seq42, run, orig, prev, written, draws, err, arg>>

\* get_days_since_creation
MaxDays == 12
DayTimes == {0, 1, 12 * 3600 - 1, 12 * 3600, 12 * 3600 + 1, SecondsPerDay - 1}

InitDays ==
    /\ RunIdle
    /\ res = NoCall
    /\ \E d \in (0 - MaxDays)..MaxDays, t \in DayTimes :
           arg = [fn |-> "days", createdAt |-> [day |-> d, sec |-> t]]

CallDays ==
    /\ arg.fn = "days"
    /\ res = NoCall
    /\ Return("days", get_days_since_creation(arg.createdAt))

SpecDays == InitDays /\ [][CallDays]_vars

\* calculate_quality_factor
MaxReplies == 2
ReplyProfiles ==
    {[authorId |-> a, endorsed |-> e] : a \in {1, 2, 3}, e \in BOOLEAN}

MkReplies(f, thread_id) ==
    [k \in 1..Len(f) |->
        [id |-> k, threadId |-> thread_id, authorId |-> f[k].authorId,
         endorsed |-> f[k].endorsed]]

Statuses == {"open", "answered", "resolved"}

InitQuality ==
    /\ RunIdle
    /\ res = NoCall
    /\ \E st \in Statuses, ai \in BOOLEAN, rf \in Lists(ReplyProfiles, MaxReplies) :
           arg = [fn |-> "quality",
                  thread |-> [id |-> 1, status |-> st, hasAIAnswer |-> ai],
                  thread_posts |-> MkReplies(rf, 1)]

CallQuality ==
    /\ arg.fn = "quality"
    /\ res = NoCall
    /\ Return("quality",
              calculate_quality_factor(arg.thread, arg.thread_posts, by_id(Users)))

SpecQuality == InitQuality /\ [][CallQuality]_vars

\* calculate_thread_views
ViewDays == {-50, -22, -15, -1, 0, 1, 14, 15, 21, 22}
ViewReplies ==
    { <<>>, MkReplies(<<[authorId |-> 2, endorsed |-> FALSE]>>, 1),
      MkReplies(<<[authorId |-> 1, endorsed |-> TRUE]>>, 1) }
Enrollments == {34, 35, 50, 51}

InitViews ==
    /\ RunIdle
    /\ res = NoCall
    /\ \E st \in Statuses, ai \in BOOLEAN, d \in ViewDays, rs \in ViewReplies,
          en \in Enrollments, raw \in 0..(RawDen - 1) :
           arg = [fn |-> "views",
                  thread |-> [id |-> 1, courseId |-> 1, status |-> st,
                              hasAIAnswer |-> ai,
                              createdAt |-> [day |-> 0 - d, sec |-> NOW.sec]],
                  thread_posts |-> rs,
                  course |-> [id |-> 1, enrollmentCount |-> en],
                  raw |-> raw]

CallViews ==
    /\ arg.fn = "views"
    /\ res = NoCall
    /\ Return("views",
              calculate_thread_views(arg.thread, arg.course, arg.thread_posts,
                                     by_id(Users), arg.raw))

SpecViews == InitViews /\ [][CallViews]_vars

(***************************************************************************)
(* The claims.                                                             *)
(***************************************************************************)
Outputs3 == {"threads", "posts", "ai_answers"}

\* the references of the input data that name no record
MissingPostRef ==
    \E k \in 1..Len(orig.posts) :
        \A j \in 1..Len(orig.threads) : orig.threads[j].id # orig.posts[k].threadId

MissingAnswerRef ==
    \E k \in 1..Len(orig.ai_answers) :
        \A j \in 1..Len(orig.threads) :
            orig.threads[j].id # orig.ai_answers[k].threadId

MissingCourseRef ==
    \E k \in 1..Len(orig.threads) :
        \A j \in 1..Len(orig.courses) :
            orig.courses[j].id # orig.threads[k].courseId

\* C1: after a run every thread record has 0 <= views <= 200, whatever the
\* status, the course size, the quality signals and the createdAt, before or
\* after NOW.  Stated of threads.json once the run has written it.
C1_ViewsInRange ==
    "threads" \in written =>
        \A k \in 1..Len(files.threads) :
            0 <= files.threads[k].views /\ files.threads[k].views <= 200

EndorsementsConsistent(a) ==
    /\ a.studentEndorsements >= 0
    /\ a.instructorEndorsements \in {0, 1}
    /\ a.instructorEndorsed = (a.instructorEndorsements > 0)
    /\ a.totalEndorsements >= a.studentEndorsements + a.instructorEndorsements

\* C2: every AI-answer record the run has computed, and every record of
\* ai-answers.json once the run has written it, has studentEndorsements >= 0,
\* instructorEndorsements 0 or 1, instructorEndorsed true exactly when
\* instructorEndorsements > 0, and totalEndorsements >= studentEndorsements +
\* instructorEndorsements, whatever the confidence, the citations, the draws
\* and the views of the thread, views below zero included.
C2_EndorsementsConsistent ==
    /\ \A k \in 1..Len(draws.answers) : EndorsementsConsistent(ai_answers[k])
    /\ "ai_answers" \in written =>
           \A k \in 1..Len(files.ai_answers) :
               EndorsementsConsistent(files.ai_answers[k])

\* an answer of at least medium confidence whose thread has views below zero
\* has been computed and written
C2_Witness ==
    /\ "ai_answers" \in written
    /\ \E k \in 1..Len(files.ai_answers) :
           /\ files.ai_answers[k].confidenceScore >= 60
           /\ thread_of(files.threads, files.ai_answers[k].threadId).views < 0
           /\ files.ai_answers[k].studentEndorsements = 0

\* the 40% draw: random() < 0.4 for the variate raw / RawDen
DrawSucceeds(raw) == raw * 10 < 4 * RawDen

\* C3: for every AI-answer computed, instructorEndorsements is 1 exactly when
\* confidenceScore >= 80, at least 2 citations have relevance >= 80, the
\* thread's days old >= 1, the thread's computed views >= 20 and the 40% draw
\* succeeds; it is 0 otherwise, and no draw is made when one of the first
\* four fails.
C3_InstructorGate ==
    \A k \in 1..Len(draws.answers) :
        LET a == ai_answers[k]
            t == thread_of(threads, a.threadId)
            four ==
                /\ a.confidenceScore >= 80
                /\ Cardinality({c \in 1..Len(a.citations) :
                                   a.citations[c].relevance >= 80}) >= 2
                /\ get_days_since_creation(t.createdAt) >= 1
                /\ t.views >= 20
        IN  /\ a.instructorEndorsements =
                   (IF four /\ DrawSucceeds(draws.answers[k][Len(draws.answers[k])])
                    THEN 1 ELSE 0)
            /\ Len(draws.answers[k]) = (IF four THEN 2 ELSE 1)

\* an answer has been endorsed by the instructor
C3_Witness ==
    \E k \in 1..Len(draws.answers) :
        /\ ai_answers[k].instructorEndorsements = 1
        /\ ai_answers[k].instructorEndorsed

\* C4: with the seed and NOW fixed, a run's output is determined by the
\* non-derived fields of its input: a run over the directory an earlier run
\* left, its derived fields kept or overwritten with other values, writes
\* into each file what the earlier run wrote.
C4_Deterministic ==
    run >= 2 =>
        \A f \in written : files[f] = prev[f]

\* a second run has written all its output over derived fields that had been
\* overwritten after the first
C4_Witness ==
    /\ run >= 2
    /\ pc = "done"
    /\ Len(files.threads) >= 2
    /\ Len(files.ai_answers) >= 1
    /\ Len(seq42) >= 3
    /\ files.threads[1].views # files.threads[2].views

C6_AllOrNothing ==
    /\ pc = "failed" => written = {}
    /\ pc = "done" => written = Outputs3

NonDerivedThread(t) == [t EXCEPT !.views = 0]

NonDerivedAnswer(a) ==
    [a EXCEPT !.studentEndorsements = 0, !.instructorEndorsements = 0,
              !.instructorEndorsed = FALSE, !.totalEndorsements = 0]

\* C7: the run changes only the derived fields: in the directory the posts,
\* courses and users are as they were, the threads are the same records in
\* the same order but for views, and the AI-answers the same records in the
\* same order but for the four endorsement fields.
C7_Frame ==
    /\ files.posts = orig.posts
    /\ files.courses = orig.courses
    /\ files.users = orig.users
    /\ Len(files.threads) = Len(orig.threads)
    /\ \A k \in 1..Len(orig.threads) :
           NonDerivedThread(files.threads[k]) = NonDerivedThread(orig.threads[k])
    /\ Len(files.ai_answers) = Len(orig.ai_answers)
    /\ \A k \in 1..Len(orig.ai_answers) :
           NonDerivedAnswer(files.ai_answers[k]) = NonDerivedAnswer(orig.ai_answers[k])

\* a run has completed and changed the views of two threads and the
\* endorsements of an AI-answer
C7_Witness ==
    /\ pc = "done"
    /\ Len(files.threads) >= 2
    /\ \A k \in 1..Len(files.threads) : files.threads[k].views # orig.threads[k].views
    /\ Len(files.posts) >= 1
    /\ Len(files.ai_answers) >= 1
    /\ files.ai_answers # orig.ai_answers

\* the quality factor in hundredths, bonus by bonus
QualityHundredths(thread, thread_posts) ==
    100
    + (IF thread.hasAIAnswer THEN 30 ELSE 0)
    + (IF Len(thread_posts) >= 1 THEN 20 ELSE 0)
    + (IF \E k \in 1..Len(thread_posts) : thread_posts[k].endorsed THEN 30 ELSE 0)
    + (IF \E k \in 1..Len(thread_posts) :
              \E u \in 1..Len(Users) :
                  /\ Users[u].id = thread_posts[k].authorId
                  /\ Users[u].role = "instructor"
       THEN 20 ELSE 0)
    + (IF thread.status = "resolved" THEN 25 ELSE 0)

\* the mathematical floor of a float: the largest integer not above it
FFloor(x) ==
    IF FIsNegative(x) /\ FFromInt(FTrunc(x)) # x THEN FTrunc(x) - 1 ELSE FTrunc(x)

StatusRange(status) ==
    IF status = "resolved" THEN 20..35
    ELSE IF status = "answered" THEN 15..25
    ELSE 8..15

SizeTenths(enrollment) ==
    IF enrollment < 35 THEN 8 ELSE IF enrollment <= 50 THEN 10 ELSE 13

\* C8: calculate_thread_views returns min(200, floor(baseViews x ageFactor x
\* qualityFactor x courseSizeFactor)), baseViews the integer drawn in the
\* status range, courseSizeFactor 0.8, 1.0 or 1.3 by the enrollment, the
\* floor a mathematical floor for every product, those below zero included.
C8_FloorOfProduct ==
    res.fn = "views" =>
        /\ get_base_views(arg.thread.status, arg.raw)
               \in StatusRange(arg.thread.status)
        /\ get_course_size_factor(arg.course.enrollmentCount)
               = FDivInt(SizeTenths(arg.course.enrollmentCount), 10)
        /\ res.val =
               Min(FFloor(
                     FMul(FMul(FMul(
                         FFromInt(get_base_views(arg.thread.status, arg.raw)),
                         age_factor(get_days_since_creation(arg.thread.createdAt))),
                         calculate_quality_factor(arg.thread, arg.thread_posts,
                                                  by_id(Users))),
                         get_course_size_factor(arg.course.enrollmentCount))),
                   200)

F2_25 == FDivInt(225, 100)

\* C9: the quality factor is 1.0 plus the bonuses, each counted once: 0.3 for
\* hasAIAnswer, 0.2 for a reply, 0.3 for an endorsed reply, 0.2 for a reply
\* of an instructor however many there are, 0.25 for resolved (as a float:
\* the float nearest the sum); it is at least 1.0 and at most 2.25.
C9_QualityFactor ==
    res.fn = "quality" =>
        /\ res.val = FDivInt(QualityHundredths(arg.thread, arg.thread_posts), 100)
        /\ ~FLess(res.val, F1_0)
        /\ ~FLess(F2_25, res.val)

\* two replies of the instructor, one endorsed, on a resolved thread with an
\* AI answer: the factor is 2.25
C9_Witness ==
    /\ res.fn = "quality"
    /\ Len(arg.thread_posts) = 2
    /\ \A k \in 1..2 : arg.thread_posts[k].authorId = 1
    /\ res.val = F2_25

\* NOW - createdAt in seconds
ElapsedSeconds(created_at) ==
    (NOW.day - created_at.day) * SecondsPerDay + (NOW.sec - created_at.sec)

\* C10 as stated: the days are the elapsed time in days truncated toward
\* zero, for createdAt before and after NOW.
C10_TruncatedTowardZero ==
    res.fn = "days" =>
        res.val = (IF ElapsedSeconds(arg.createdAt) < 0
                   THEN 0 - ((0 - ElapsedSeconds(arg.createdAt)) \div SecondsPerDay)
                   ELSE ElapsedSeconds(arg.createdAt) \div SecondsPerDay)

\* C10 as amended: the days are the elapsed time in days rounded down, the
\* largest integer not above it, for createdAt before and after NOW.
C10_RoundedDown ==
    res.fn = "days" =>
        /\ res.val * SecondsPerDay <= ElapsedSeconds(arg.createdAt)
        /\ ElapsedSeconds(arg.createdAt) < (res.val + 1) * SecondsPerDay

\* a createdAt less than a day after NOW: the days are -1
C10_Witness ==
    /\ res.fn = "days"
    /\ ElapsedSeconds(arg.createdAt) < 0
    /\ ElapsedSeconds(arg.createdAt) > 0 - SecondsPerDay
    /\ res.val = -1
====
